---- MODULE Spec2Model ----
(***************************************************************************)
(* Model of the Todo list component of svelte-pwa-test                     *)
(* (src/src/components/TodoList.svelte): the reactive state `todos` and    *)
(* `newTodoText`, the handlers addTodo, toggleTodo, deleteTodo and         *)
(* handleKeydown, and the localStorage mirror written by saveTodos and     *)
(* read by loadTodos on mount.                                             *)
(*                                                                         *)
(* JavaScript strings are sequences of one-character strings.  JSON values *)
(* are tagged records; JSON.stringify and JSON.parse are modelled at the   *)
(* level of characters.                                                    *)
(***************************************************************************)
EXTENDS Integers, Sequences, FiniteSets, TLC

(***************************************************************************)
(* Bounds of the model.                                                    *)
(***************************************************************************)
\* Date.now() of the first state; 9 so that ids of one and two digits occur.
MinClock == 9
\* Date.now() stops advancing here.
MaxClock == 10
\* addTodo is not explored on a collection that already has this many items.
MaxTodos == 2
\* Number of failing localStorage.setItem calls explored in one behaviour.
MaxWriteFailures == 1

(***************************************************************************)
(* JavaScript strings.                                                     *)
(***************************************************************************)
\* The characters String.prototype.trim removes that the model can type.
WhiteSpace == {" ", "\t"}

RECURSIVE TrimStart(_)
TrimStart(s) ==
  IF s # <<>> /\ Head(s) \in WhiteSpace THEN TrimStart(Tail(s)) ELSE s

RECURSIVE TrimEnd(_)
TrimEnd(s) ==
  IF s # <<>> /\ s[Len(s)] \in WhiteSpace
    THEN TrimEnd(SubSeq(s, 1, Len(s) - 1))
    ELSE s

\* String.prototype.trim
Trim(s) == TrimEnd(TrimStart(s))

(***************************************************************************)
(* JSON values as they live in memory after JSON.parse.                    *)
(* An object is the sequence of its <<key, value>> members in insertion    *)
(* order, keys being strings.                                              *)
(***************************************************************************)
JNull == [t |-> "null"]
JBool(b) == [t |-> "bool", b |-> b]
JNum(n) == [t |-> "num", n |-> n]
JStr(s) == [t |-> "str", s |-> s]
JArr(a) == [t |-> "arr", a |-> a]
JObj(o) == [t |-> "obj", o |-> o]
\* The value of a property that is not there.
Undefined == [t |-> "undefined"]

KeyId == <<"i", "d">>
KeyText == <<"t", "e", "x", "t">>
KeyCompleted == <<"c", "o", "m", "p", "l", "e", "t", "e", "d">>

HasKey(o, k) == \E j \in 1..Len(o) : o[j][1] = k

\* obj[k]
Member(o, k) ==
  IF HasKey(o, k)
    THEN o[CHOOSE j \in 1..Len(o) : o[j][1] = k][2]
    ELSE Undefined

\* obj[k] = v: an existing key keeps its position, a new key goes last.
SetMember(o, k, v) ==
  IF HasKey(o, k)
    THEN [j \in 1..Len(o) |-> IF o[j][1] = k THEN <<k, v>> ELSE o[j]]
    ELSE Append(o, <<k, v>>)

\* value.k for a property access on any non-nullish value.
GetProp(v, k) == IF v.t = "obj" THEN Member(v.o, k) ELSE Undefined

\* ToBoolean
Truthy(v) ==
  CASE v.t = "undefined" -> FALSE
    [] v.t = "null" -> FALSE
    [] v.t = "bool" -> v.b
    [] v.t = "num" -> v.n # 0
    [] v.t = "str" -> v.s # <<>>
    [] OTHER -> TRUE

(***************************************************************************)
(* JSON.stringify                                                          *)
(***************************************************************************)
DigitChars == <<"0", "1", "2", "3", "4", "5", "6", "7", "8", "9">>
Digits == {DigitChars[j] : j \in 1..10}
DigitVal(c) == (CHOOSE j \in 1..10 : DigitChars[j] = c) - 1

RECURSIVE DigitsOf(_)
DigitsOf(n) ==
  IF n < 10
    THEN <<DigitChars[n + 1]>>
    ELSE Append(DigitsOf(n \div 10), DigitChars[(n % 10) + 1])

QuoteChar(c) ==
  CASE c = "\"" -> <<"\\", "\"">>
    [] c = "\\" -> <<"\\", "\\">>
    [] c = "\t" -> <<"\\", "t">>
    [] OTHER -> <<c>>

RECURSIVE QuoteChars(_)
QuoteChars(s) ==
  IF s = <<>> THEN <<>> ELSE QuoteChar(Head(s)) \o QuoteChars(Tail(s))

Quote(s) == <<"\"">> \o QuoteChars(s) \o <<"\"">>

LitNull == <<"n", "u", "l", "l">>
LitTrue == <<"t", "r", "u", "e">>
LitFalse == <<"f", "a", "l", "s", "e">>

RECURSIVE JSONstringify(_)
RECURSIVE StringifyElems(_, _)
RECURSIVE StringifyMembers(_, _)

StringifyElems(a, j) ==
  IF j > Len(a)
    THEN <<>>
    ELSE (IF j > 1 THEN <<",">> ELSE <<>>)
           \o JSONstringify(a[j]) \o StringifyElems(a, j + 1)

StringifyMembers(o, j) ==
  IF j > Len(o)
    THEN <<>>
    ELSE (IF j > 1 THEN <<",">> ELSE <<>>)
           \o Quote(o[j][1]) \o <<":">> \o JSONstringify(o[j][2])
           \o StringifyMembers(o, j + 1)

JSONstringify(v) ==
  CASE v.t = "null" -> LitNull
    [] v.t = "bool" -> (IF v.b THEN LitTrue ELSE LitFalse)
    [] v.t = "num" -> DigitsOf(v.n)
    [] v.t = "str" -> Quote(v.s)
    [] v.t = "arr" -> <<"[">> \o StringifyElems(v.a, 1) \o <<"]">>
    [] v.t = "obj" -> <<"{">> \o StringifyMembers(v.o, 1) \o <<"}">>

(***************************************************************************)
(* JSON.parse, for texts over the characters JSON.stringify emits plus     *)
(* white space: null, true, false, unsigned integers, strings with the     *)
(* escapes \" \\ \t, arrays and objects.  Any other text is a SyntaxError. *)
(***************************************************************************)
JSONWhiteSpace == {" ", "\t", "\n", "\r"}

Fail == [ok |-> FALSE, v |-> JNull, i |-> 0]
Ok(v, i) == [ok |-> TRUE, v |-> v, i |-> i]

At(s, i) == IF i <= Len(s) THEN s[i] ELSE "EOF"

StartsAt(s, i, lit) ==
  /\ i + Len(lit) - 1 <= Len(s)
  /\ SubSeq(s, i, i + Len(lit) - 1) = lit

RECURSIVE SkipWs(_, _)
SkipWs(s, i) == IF At(s, i) \in JSONWhiteSpace THEN SkipWs(s, i + 1) ELSE i

RECURSIVE ParseDigits(_, _, _)
ParseDigits(s, i, acc) ==
  IF At(s, i) \in Digits
    THEN ParseDigits(s, i + 1, acc * 10 + DigitVal(At(s, i)))
    ELSE Ok(JNum(acc), i)

\* A leading zero ends the number.
ParseNumber(s, i) ==
  IF At(s, i) = "0" THEN Ok(JNum(0), i + 1) ELSE ParseDigits(s, i, 0)

\* The characters of a string after its opening quote.
RECURSIVE ParseChars(_, _, _)
ParseChars(s, i, acc) ==
  LET c == At(s, i)
      e == At(s, i + 1)
  IN  CASE c = "EOF" -> Fail
        [] c = "\"" -> Ok(JStr(acc), i + 1)
        [] c = "\\" ->
             (CASE e \in {"\"", "\\"} -> ParseChars(s, i + 2, Append(acc, e))
                [] e = "t" -> ParseChars(s, i + 2, Append(acc, "\t"))
                [] OTHER -> Fail)
        [] c \in {"\t", "\n", "\r"} -> Fail
        [] OTHER -> ParseChars(s, i + 1, Append(acc, c))

RECURSIVE ParseValue(_, _)
RECURSIVE ParseElems(_, _, _)
RECURSIVE ParseMembers(_, _, _)

\* After "[" or ",": a value, then "," or "]".
ParseElems(s, i, acc) ==
  LET r == ParseValue(s, i)
      j == SkipWs(s, r.i)
  IN  IF ~r.ok THEN Fail
      ELSE CASE At(s, j) = "," ->
                  ParseElems(s, SkipWs(s, j + 1), Append(acc, r.v))
             [] At(s, j) = "]" -> Ok(JArr(Append(acc, r.v)), j + 1)
             [] OTHER -> Fail

\* After "{" or ",": a string key, ":", a value, then "," or "}".
ParseMembers(s, i, acc) ==
  LET k == IF At(s, i) = "\"" THEN ParseChars(s, i + 1, <<>>) ELSE Fail
      c == SkipWs(s, k.i)
      r == IF k.ok /\ At(s, c) = ":"
             THEN ParseValue(s, SkipWs(s, c + 1))
             ELSE Fail
      j == SkipWs(s, r.i)
  IN  IF ~r.ok THEN Fail
      ELSE CASE At(s, j) = "," ->
                  ParseMembers(s, SkipWs(s, j + 1), SetMember(acc, k.v.s, r.v))
             [] At(s, j) = "}" -> Ok(JObj(SetMember(acc, k.v.s, r.v)), j + 1)
             [] OTHER -> Fail

ParseValue(s, i) ==
  LET c == At(s, i)
      j == SkipWs(s, i + 1)
  IN  CASE StartsAt(s, i, LitNull) -> Ok(JNull, i + 4)
        [] StartsAt(s, i, LitTrue) -> Ok(JBool(TRUE), i + 4)
        [] StartsAt(s, i, LitFalse) -> Ok(JBool(FALSE), i + 5)
        [] c \in Digits -> ParseNumber(s, i)
        [] c = "\"" -> ParseChars(s, i + 1, <<>>)
        [] c = "[" ->
             (IF At(s, j) = "]" THEN Ok(JArr(<<>>), j + 1)
                                ELSE ParseElems(s, j, <<>>))
        [] c = "{" ->
             (IF At(s, j) = "}" THEN Ok(JObj(<<>>), j + 1)
                                ELSE ParseMembers(s, j, <<>>))
        [] OTHER -> Fail

\* JSON.parse(s): [ok |-> TRUE, v |-> value], or ok = FALSE for a SyntaxError.
JSONparse(s) ==
  LET r == ParseValue(s, SkipWs(s, 1))
  IN  IF r.ok /\ SkipWs(s, r.i) = Len(s) + 1
        THEN [ok |-> TRUE, v |-> r.v]
        ELSE [ok |-> FALSE, v |-> JNull]

(***************************************************************************)
(* The component and its environment.                                      *)
(***************************************************************************)
\* Browser tabs that can show the component on the same origin.
Tabs == {1, 2}

\* What the user can have in the input field.
Inputs == {<<>>, <<" ", "\t">>, <<"a">>, <<" ", "\"", "b", " ">>}

\* Keys of a keydown event on the input field.
Keys == {"Enter", "a"}

\* Arguments of toggleTodo and deleteTodo.
IdDomain == MinClock..MaxClock

\* localStorage.getItem(STORAGE_KEY): no item (null), or the stored string.
NoItem == [has |-> FALSE, s |-> <<>>]
Item(s) == [has |-> TRUE, s |-> s]

\* What the key can hold before the first session of a behaviour.
InitStored ==
  { NoItem,
    Item(<<>>),
    Item(<<"n", "o", "t", " ", "j", "s", "o", "n">>),
    Item(<<"[", "{">>),
    Item(<<"5">>),
    Item(<<"n", "u", "l", "l">>),
    Item(<<"{", "}">>),
    Item(<<"[", "n", "u", "l", "l", "]">>) }

VARIABLES
  todos,          \* todos[t]: the $state collection of tab t
  newTodoText,    \* newTodoText[t]: the $state bound to the input field
  phase,          \* phase[t]: "new" (never mounted), "open" or "closed"
  storage,        \* the localStorage item under STORAGE_KEY
  clock,          \* Date.now()
  writeFailures,  \* setItem calls that threw so far
  writesOk,       \* writesOk[t]: no setItem of tab t's session has thrown
  maxIssuedId,    \* the largest id addTodo has given a Todo so far, or 0
  reads,          \* reads[t]: getItem calls of tab t's current session
  found,          \* found[t]: getItem gave tab t's current session a truthy string
  rows,           \* rows[t]: the Todos the TodoItem rows of tab t were rendered with
  last            \* the handler that ran last and how it ended

vars ==
  <<todos, newTodoText, phase, storage, clock, writeFailures, writesOk,
    maxIssuedId, reads, found, rows, last>>

Ran(op, t, id, via, err, logged) ==
  [op |-> op, tab |-> t, id |-> id, via |-> via, err |-> err,
   logged |-> logged]

\* let todos = $state<Todo[]>([])
EmptyTodos == JArr(<<>>)

Init ==
  /\ todos = [t \in Tabs |-> EmptyTodos]
  /\ newTodoText = [t \in Tabs |-> <<>>]
  /\ phase = [t \in Tabs |-> "new"]
  /\ storage \in InitStored
  /\ clock = MinClock
  /\ writeFailures = 0
  /\ writesOk = [t \in Tabs |-> TRUE]
  /\ maxIssuedId = 0
  /\ reads = [t \in Tabs |-> 0]
  /\ found = [t \in Tabs |-> FALSE]
  /\ rows = [t \in Tabs |-> <<>>]
  /\ last = Ran("init", 0, 0, "", "none", FALSE)

\* loadTodos reading a key that saveTodos does not write.
loadTodos_WrongKey(cur, stored) ==
  [todos |-> cur, logged |-> FALSE, err |-> "none"]

\* loadTodos without its try/catch.
loadTodos_NoCatch(cur, stored) ==
  LET parsed == JSONparse(stored.s)
  IN  IF stored.has /\ stored.s # <<>>
        THEN IF parsed.ok
               THEN [todos |-> parsed.v, logged |-> FALSE, err |-> "none"]
               ELSE [todos |-> cur, logged |-> FALSE, err |-> "SyntaxError"]
        ELSE [todos |-> cur, logged |-> FALSE, err |-> "none"]

\* loadTodos without `if (stored)`: JSON.parse(null) is null and
\* JSON.parse('') is a SyntaxError.
loadTodos_NoGuard(cur, stored) ==
  LET parsed == JSONparse(IF stored.has THEN stored.s ELSE LitNull)
  IN  IF parsed.ok
        THEN [todos |-> parsed.v, logged |-> FALSE, err |-> "none"]
        ELSE [todos |-> EmptyTodos, logged |-> TRUE, err |-> "none"]

\* loadTodos validating what it parsed: anything but an array is dropped.
loadTodos_ArraysOnly(cur, stored) ==
  LET parsed == JSONparse(stored.s)
  IN  IF stored.has /\ stored.s # <<>>
        THEN IF parsed.ok /\ parsed.v.t = "arr"
               THEN [todos |-> parsed.v, logged |-> FALSE, err |-> "none"]
               ELSE [todos |-> EmptyTodos, logged |-> TRUE, err |-> "none"]
        ELSE [todos |-> cur, logged |-> FALSE, err |-> "none"]

\* loadTodos: the value of `todos` after the call, whether console.error
\* was called and the exception that left the call, from the value of `todos`
\* before the call and the stored item.
loadTodos(cur, stored) ==
  LET parsed == JSONparse(stored.s)
  IN  IF stored.has /\ stored.s # <<>>
        THEN IF parsed.ok
               THEN [todos |-> parsed.v, logged |-> FALSE, err |-> "none"]
               ELSE [todos |-> EmptyTodos, logged |-> TRUE, err |-> "none"]
        ELSE [todos |-> cur, logged |-> FALSE, err |-> "none"]

\* onMount calling saveTodos after loadTodos.
Mount_SavesLoaded(t) ==
  LET r == loadTodos(EmptyTodos, storage)
  IN  /\ phase[t] # "open"
      /\ phase' = [phase EXCEPT ![t] = "open"]
      /\ todos' = [todos EXCEPT ![t] = r.todos]
      /\ newTodoText' = [newTodoText EXCEPT ![t] = <<>>]
      /\ writesOk' = [writesOk EXCEPT ![t] = TRUE]
      /\ reads' = [reads EXCEPT ![t] = 1]
      /\ found' = [found EXCEPT ![t] = storage.has /\ storage.s # <<>>]
      /\ rows' = [rows EXCEPT ![t] = <<>>]
      /\ storage' = Item(JSONstringify(r.todos))
      /\ last' = Ran("mount", t, 0, "", r.err, r.logged)
      /\ UNCHANGED <<clock, writeFailures, maxIssuedId>>

\* A page load: the component is constructed and onMount runs loadTodos.
Mount(t) ==
  LET r == loadTodos(EmptyTodos, storage)
  IN  /\ phase[t] # "open"
      /\ phase' = [phase EXCEPT ![t] = "open"]
      /\ todos' = [todos EXCEPT ![t] = r.todos]
      /\ newTodoText' = [newTodoText EXCEPT ![t] = <<>>]
      /\ writesOk' = [writesOk EXCEPT ![t] = TRUE]
      /\ reads' = [reads EXCEPT ![t] = 1]
      /\ found' = [found EXCEPT ![t] = storage.has /\ storage.s # <<>>]
      /\ rows' = [rows EXCEPT ![t] = <<>>]
      /\ last' = Ran("mount", t, 0, "", r.err, r.logged)
      /\ UNCHANGED <<storage, clock, writeFailures, maxIssuedId>>

\* The tab is closed or reloaded: its rows are gone.  todos[t] keeps the
\* collection the session ended with until the next Mount constructs the
\* component again.
Close(t) ==
  /\ phase[t] = "open"
  /\ phase' = [phase EXCEPT ![t] = "closed"]
  /\ last' = Ran("close", t, 0, "", "none", FALSE)
  /\ rows' = [rows EXCEPT ![t] = <<>>]
  /\ UNCHANGED <<todos, newTodoText, storage, clock, writeFailures, writesOk,
                 maxIssuedId, reads, found>>

\* Time passes.
Tick ==
  /\ clock < MaxClock
  /\ clock' = clock + 1
  /\ last' = Ran("tick", 0, 0, "", "none", FALSE)
  /\ UNCHANGED <<todos, newTodoText, phase, storage, writeFailures, writesOk,
                 maxIssuedId, reads, found, rows>>

\* bind:value={newTodoText}: the user edits the input field.
TypeText(t, txt) ==
  /\ phase[t] = "open"
  /\ txt # newTodoText[t]
  /\ newTodoText' = [newTodoText EXCEPT ![t] = txt]
  /\ last' = Ran("input", t, 0, "", "none", FALSE)
  /\ UNCHANGED <<todos, phase, storage, clock, writeFailures, writesOk,
                 maxIssuedId, reads, found, rows>>

\* saveTodos serializing twice: the item is the JSON text of a string.
StoredBy_Twice(value) == Item(JSONstringify(JStr(JSONstringify(value))))

\* localStorage.setItem(STORAGE_KEY, JSON.stringify(todos)): the item after a
\* successful call with `todos` = value.
StoredBy(value) == Item(JSONstringify(value))

\* saveTodos running before the assignment to `todos`: it stores the old one.
saveTodos_BeforeAssign(t, value, op, id, via) ==
  \/ /\ storage' = StoredBy(todos[t])
     /\ last' = Ran(op, t, id, via, "none", FALSE)
     /\ UNCHANGED <<writeFailures, writesOk>>
  \/ /\ writeFailures < MaxWriteFailures
     /\ writeFailures' = writeFailures + 1
     /\ writesOk' = [writesOk EXCEPT ![t] = FALSE]
     /\ last' = Ran(op, t, id, via, "QuotaExceededError", FALSE)
     /\ UNCHANGED storage

\* saveTodos with a try/catch around setItem that logs the failure.
saveTodos_Catches(t, value, op, id, via) ==
  \/ /\ storage' = StoredBy(value)
     /\ last' = Ran(op, t, id, via, "none", FALSE)
     /\ UNCHANGED <<writeFailures, writesOk>>
  \/ /\ writeFailures < MaxWriteFailures
     /\ writeFailures' = writeFailures + 1
     /\ writesOk' = [writesOk EXCEPT ![t] = FALSE]
     /\ last' = Ran(op, t, id, via, "none", TRUE)
     /\ UNCHANGED storage

\* saveTodos, called with `todos` already assigned to value: setItem stores
\* the serialization, or throws and stores nothing.
saveTodos(t, value, op, id, via) ==
  \/ /\ storage' = StoredBy(value)
     /\ last' = Ran(op, t, id, via, "none", FALSE)
     /\ UNCHANGED <<writeFailures, writesOk>>
  \/ /\ writeFailures < MaxWriteFailures
     /\ writeFailures' = writeFailures + 1
     /\ writesOk' = [writesOk EXCEPT ![t] = FALSE]
     /\ last' = Ran(op, t, id, via, "QuotaExceededError", FALSE)
     /\ UNCHANGED storage

\* A handler that changes nothing and ends with err.
NoEffect(t, op, id, via, err) ==
  /\ last' = Ran(op, t, id, via, err, FALSE)
  /\ UNCHANGED <<todos, newTodoText, phase, storage, clock, writeFailures,
                 writesOk, maxIssuedId, reads, found, rows>>

\* [...v]: the elements of an array, the characters of a string.
Iterable(v) == v.t \in {"arr", "str"}
SpreadItems(v) ==
  IF v.t = "arr" THEN v.a ELSE [j \in 1..Len(v.s) |-> JStr(<<v.s[j]>>)]

\* addTodo testing the input without trimming it.
Accepts_NoTrim(input) == Truthy(JStr(input))

\* if (newTodoText.trim())
Accepts(input) == Truthy(JStr(Trim(input)))

\* addTodo storing the input as typed.
NewTodo_Untrimmed(now, input) ==
  JObj(<< <<KeyId, JNum(now)>>,
          <<KeyText, JStr(input)>>,
          <<KeyCompleted, JBool(FALSE)>> >>)

\* { id: Date.now(), text: newTodoText.trim(), completed: false }
NewTodo(now, input) ==
  JObj(<< <<KeyId, JNum(now)>>,
          <<KeyText, JStr(Trim(input))>>,
          <<KeyCompleted, JBool(FALSE)>> >>)

Max(a, b) == IF a >= b THEN a ELSE b

\* addTodo, explored on collections of fewer than cap items.
addTodoWithin(t, via, cap) ==
  LET value ==
        JArr(Append(SpreadItems(todos[t]), NewTodo(clock, newTodoText[t])))
  IN  /\ phase[t] = "open"
      /\ IF ~Accepts(newTodoText[t])
           THEN NoEffect(t, "add", 0, via, "none")
           ELSE IF ~Iterable(todos[t])
             THEN NoEffect(t, "add", 0, via, "TypeError")
             ELSE /\ Len(SpreadItems(todos[t])) < cap
                  /\ todos' = [todos EXCEPT ![t] = value]
                  /\ newTodoText' = [newTodoText EXCEPT ![t] = <<>>]
                  /\ maxIssuedId' = Max(maxIssuedId, clock)
                  /\ saveTodos(t, value, "add", clock, via)
                  /\ UNCHANGED <<phase, clock, reads, found, rows>>

\* addTodo building [{ ... }, ...todos]: the new Todo goes first.
addTodo_Prepends(t, via) ==
  LET value ==
        JArr(<<NewTodo(clock, newTodoText[t])>> \o SpreadItems(todos[t]))
  IN  /\ phase[t] = "open"
      /\ IF ~Accepts(newTodoText[t])
           THEN NoEffect(t, "add", 0, via, "none")
           ELSE IF ~Iterable(todos[t])
             THEN NoEffect(t, "add", 0, via, "TypeError")
             ELSE /\ Len(SpreadItems(todos[t])) < MaxTodos
                  /\ todos' = [todos EXCEPT ![t] = value]
                  /\ newTodoText' = [newTodoText EXCEPT ![t] = <<>>]
                  /\ maxIssuedId' = Max(maxIssuedId, clock)
                  /\ saveTodos(t, value, "add", clock, via)
                  /\ UNCHANGED <<phase, clock, reads, found, rows>>

\* addTodo with `newTodoText = ''` after the if instead of inside it.
addTodo_ClearsAlways(t, via) ==
  LET value ==
        JArr(Append(SpreadItems(todos[t]), NewTodo(clock, newTodoText[t])))
  IN  /\ phase[t] = "open"
      /\ IF ~Accepts(newTodoText[t])
           THEN /\ newTodoText' = [newTodoText EXCEPT ![t] = <<>>]
                /\ last' = Ran("add", t, 0, via, "none", FALSE)
                /\ UNCHANGED <<todos, phase, storage, clock, writeFailures,
                               writesOk, maxIssuedId, reads, found, rows>>
           ELSE IF ~Iterable(todos[t])
             THEN NoEffect(t, "add", 0, via, "TypeError")
             ELSE /\ Len(SpreadItems(todos[t])) < MaxTodos
                  /\ todos' = [todos EXCEPT ![t] = value]
                  /\ newTodoText' = [newTodoText EXCEPT ![t] = <<>>]
                  /\ maxIssuedId' = Max(maxIssuedId, clock)
                  /\ saveTodos(t, value, "add", clock, via)
                  /\ UNCHANGED <<phase, clock, reads, found, rows>>

addTodo(t, via) == addTodoWithin(t, via, MaxTodos)

\* todos.map and todos.filter exist only on arrays, and their callbacks read
\* todo.id, which throws on null.
CanVisit(v) == v.t = "arr" /\ \A j \in 1..Len(v.a) : v.a[j].t # "null"

\* toggleTodo marking the Todo completed instead of flipping the flag.
Toggled_SetTrue(todo, id) ==
  IF GetProp(todo, KeyId) = JNum(id)
    THEN JObj(SetMember(todo.o, KeyCompleted, JBool(TRUE)))
    ELSE todo

\* todo.id === id ? { ...todo, completed: !todo.completed } : todo
Toggled(todo, id) ==
  IF GetProp(todo, KeyId) = JNum(id)
    THEN JObj(SetMember(todo.o, KeyCompleted,
                        JBool(~Truthy(GetProp(todo, KeyCompleted)))))
    ELSE todo

\* toggleTodo calling loadTodos first: it works on the stored collection.
toggleTodo_Reloads(t, id) ==
  LET cur == loadTodos(todos[t], storage).todos
      value == JArr([j \in 1..Len(cur.a) |-> Toggled(cur.a[j], id)])
  IN  /\ phase[t] = "open"
      /\ reads' = [reads EXCEPT ![t] = reads[t] + 1]
      /\ IF ~CanVisit(cur)
           THEN /\ todos' = [todos EXCEPT ![t] = cur]
                /\ last' = Ran("toggle", t, id, "", "TypeError", FALSE)
                /\ UNCHANGED <<newTodoText, phase, storage, clock,
                               writeFailures, writesOk, maxIssuedId, found, rows>>
           ELSE /\ todos' = [todos EXCEPT ![t] = value]
                /\ saveTodos(t, value, "toggle", id, "")
                /\ UNCHANGED <<newTodoText, phase, clock, maxIssuedId, found, rows>>

\* toggleTodo without its call of saveTodos.
toggleTodo_NoSave(t, id) ==
  LET value == JArr([j \in 1..Len(todos[t].a) |-> Toggled(todos[t].a[j], id)])
  IN  /\ phase[t] = "open"
      /\ IF ~CanVisit(todos[t])
           THEN NoEffect(t, "toggle", id, "", "TypeError")
           ELSE /\ todos' = [todos EXCEPT ![t] = value]
                /\ last' = Ran("toggle", t, id, "", "none", FALSE)
                /\ UNCHANGED <<newTodoText, phase, storage, clock,
                               writeFailures, writesOk, maxIssuedId, reads, found, rows>>

toggleTodo(t, id) ==
  LET value == JArr([j \in 1..Len(todos[t].a) |-> Toggled(todos[t].a[j], id)])
  IN  /\ phase[t] = "open"
      /\ IF ~CanVisit(todos[t])
           THEN NoEffect(t, "toggle", id, "", "TypeError")
           ELSE /\ todos' = [todos EXCEPT ![t] = value]
                /\ saveTodos(t, value, "toggle", id, "")
                /\ UNCHANGED <<newTodoText, phase, clock, maxIssuedId, reads, found, rows>>

\* deleteTodo filtering with === instead of !==.
Kept_Inverted(todo, id) == GetProp(todo, KeyId) = JNum(id)

\* todo.id !== id
Kept(todo, id) == GetProp(todo, KeyId) # JNum(id)

deleteTodo(t, id) ==
  LET value == JArr(SelectSeq(todos[t].a, LAMBDA todo : Kept(todo, id)))
  IN  /\ phase[t] = "open"
      /\ IF ~CanVisit(todos[t])
           THEN NoEffect(t, "delete", id, "", "TypeError")
           ELSE /\ todos' = [todos EXCEPT ![t] = value]
                /\ saveTodos(t, value, "delete", id, "")
                /\ UNCHANGED <<newTodoText, phase, clock, maxIssuedId, reads, found, rows>>

handleKeydown(t, key) ==
  IF key = "Enter"
    THEN addTodo(t, "Enter")
    ELSE /\ phase[t] = "open"
         /\ NoEffect(t, "keydown", 0, key, "none")

\* One tab at a time: a session, then the next one after a reload.
\* The handler recorded in l assigned `todos`: loadTodos on mount (the first
\* render follows it in any case), an addTodo that created a Todo (its
\* record carries the Date.now() it used), a toggleTodo or deleteTodo whose
\* map or filter returned.
Assigned(l) ==
  \/ l.op = "mount"
  \/ l.op = "add" /\ l.id # 0
  \/ l.op \in {"toggle", "delete"} /\ l.err # "TypeError"

\* todos.length throws when `todos` is null, and the key expression
\* (todo.id) of the each block throws on a null element.
RenderErr(v) ==
  IF \/ v.t = "null"
     \/ v.t = "arr" /\ \E j \in 1..Len(v.a) : v.a[j].t = "null"
    THEN "TypeError"
    ELSE "none"

\* The each block keeping the rows it has, whatever `todos` holds now.
Rendered_Stale(old, v) == old

\* The rows after the update: one TodoItem per element of an array, in its
\* order; none for a number or an object (nothing to iterate); the rows
\* there were when the update threw before it touched the DOM.
Rendered(old, v) ==
  IF RenderErr(v) # "none"
    THEN old
    ELSE IF v.t = "arr" THEN v.a ELSE <<>>

\* Two elements of the array have the same key (todo.id).
HasDuplicateKeys(v) ==
  /\ v.t = "arr"
  /\ \E i, j \in 1..Len(v.a) :
       i # j /\ GetProp(v.a[i], KeyId) = GetProp(v.a[j], KeyId)

\* {#each todos as todo (todo.id)}: the block is brought up to date with
\* `todos` in the microtask after the handler that assigned it has ended,
\* by returning or by throwing.  It changes nothing the handlers read.
Render(t) ==
  /\ phase[t] = "open"
  /\ last.tab = t
  /\ Assigned(last)
  /\ last' = Ran("render", t, 0, "", RenderErr(todos[t]), FALSE)
  /\ rows' = [rows EXCEPT ![t] = Rendered(rows[t], todos[t])]
  /\ UNCHANGED <<todos, newTodoText, phase, storage, clock, writeFailures,
                 writesOk, maxIssuedId, reads, found>>

\* The same update in a development build when two elements have the same
\* key: it throws each_key_duplicate and leaves the rows as they are (a
\* production build does not check and runs Render).  The two outcomes
\* differ in the rows only, which nothing but the controls of the rows
\* reads.
RenderDuplicateKeys(t) ==
  /\ phase[t] = "open"
  /\ last.tab = t
  /\ Assigned(last)
  /\ RenderErr(todos[t]) = "none"
  /\ HasDuplicateKeys(todos[t])
  /\ last' = Ran("render", t, 0, "", "each_key_duplicate", FALSE)
  /\ UNCHANGED <<todos, newTodoText, phase, storage, clock, writeFailures,
                 writesOk, maxIssuedId, reads, found, rows>>

OneTab == {1}

\* The update of the each block is due: it runs in a microtask, before the
\* browser starts the next task (an event, a page load, a tab closing).
Pending == \E t \in Tabs : phase[t] = "open" /\ last.tab = t /\ Assigned(last)

Next ==
  \/ ~Pending /\ \E t \in OneTab : Mount(t)
  \/ ~Pending /\ \E t \in OneTab : Close(t)
  \/ ~Pending /\ Tick
  \/ ~Pending /\ \E t \in OneTab, txt \in Inputs : TypeText(t, txt)
  \/ ~Pending /\ \E t \in OneTab : addTodo(t, "click")
  \/ ~Pending /\ \E t \in OneTab, key \in Keys : handleKeydown(t, key)
  \/ ~Pending /\ \E t \in OneTab, id \in IdDomain : toggleTodo(t, id)
  \/ ~Pending /\ \E t \in OneTab, id \in IdDomain : deleteTodo(t, id)
  \/ \E t \in OneTab : Render(t)

Spec == Init /\ [][Next]_vars

\* Two tabs of one browser profile on the same origin: they share
\* localStorage and its one key, and each runs its own instance of the
\* component.  Nothing is stored when the first tab opens, what is typed is
\* 'a' (the input field is empty after a load and after an add), and the
\* tabs act within one millisecond, so the Todos they create have the same
\* id.  A tab creates at most MaxTabTodos Todos at a time.
MaxTabTodos == 1

TabInputs == {<<"a">>}

InitTabs == Init /\ storage = NoItem

NextTabs ==
  \/ \E t \in Tabs : Mount(t)
  \/ \E t \in Tabs, txt \in TabInputs : TypeText(t, txt)
  \/ \E t \in Tabs :
       Len(SpreadItems(todos[t])) < MaxTabTodos /\ addTodo(t, "click")
  \/ \E t \in Tabs, id \in IdDomain : toggleTodo(t, id)
  \/ \E t \in Tabs, id \in IdDomain : deleteTodo(t, id)

SpecTabs == InitTabs /\ [][NextTabs]_vars

(***************************************************************************)
(* Vocabulary of the properties.                                           *)
(***************************************************************************)
\* A Todo record: an object with a number id, a string text and a boolean
\* completed.
IsTodo(v) ==
  /\ v.t = "obj"
  /\ GetProp(v, KeyId).t = "num"
  /\ GetProp(v, KeyText).t = "str"
  /\ GetProp(v, KeyCompleted).t = "bool"

\* A collection of Todo records.
IsTodoList(v) == v.t = "arr" /\ \A j \in 1..Len(v.a) : IsTodo(v.a[j])

IdOf(todo) == GetProp(todo, KeyId).n
TextOf(todo) == GetProp(todo, KeyText).s
CompletedOf(todo) == GetProp(todo, KeyCompleted).b

\* The ids of the Todos of a collection.
IdsIn(v) == {IdOf(v.a[j]) : j \in 1..Len(v.a)}

\* a without its k-th element.
RemoveAt(a, k) == SubSeq(a, 1, k - 1) \o SubSeq(a, k + 1, Len(a))

\* The step is a call of handler op in tab t.
Called(op, t) == last'.op = op /\ last'.tab = t

(***************************************************************************)
(* C1: an addTodo whose input has a non-empty trimmed form makes the       *)
(* collection (any array, whatever it holds) one element longer, keeps     *)
(* every element it had at its position, and the new last element has the  *)
(* trimmed input as text and completed = false; a Todo with the same text  *)
(* already in the collection makes no difference.                          *)
(***************************************************************************)
C1_AddAppends ==
  [][\A t \in Tabs :
       (Called("add", t) /\ Trim(newTodoText[t]) # <<>> /\ todos[t].t = "arr")
       => /\ todos'[t].t = "arr"
          /\ Len(todos'[t].a) = Len(todos[t].a) + 1
          /\ SubSeq(todos'[t].a, 1, Len(todos[t].a)) = todos[t].a
          /\ LET new == todos'[t].a[Len(todos'[t].a)]
             IN  /\ GetProp(new, KeyText) = JStr(Trim(newTodoText[t]))
                 /\ GetProp(new, KeyCompleted) = JBool(FALSE)]_vars

\* An add has just appended a second Todo with the text of the first one,
\* which is completed and still is.
C1_Witness ==
  /\ last.op = "add"
  /\ IsTodoList(todos[1])
  /\ Len(todos[1].a) = 2
  /\ TextOf(todos[1].a[1]) = TextOf(todos[1].a[2])
  /\ CompletedOf(todos[1].a[1])
  /\ ~CompletedOf(todos[1].a[2])

(***************************************************************************)
(* C2: an addTodo whose input is empty or only white space leaves the      *)
(* collection as it is, creates nothing and raises no error.               *)
(***************************************************************************)
C2_BlankAddIsNoOp ==
  [][\A t \in Tabs :
       (Called("add", t) /\ Trim(newTodoText[t]) = <<>>)
       => /\ todos'[t] = todos[t]
          /\ last'.err = "none"]_vars

\* An add has just run on a white-space input, with a Todo in the collection.
C2_Witness ==
  /\ last.op = "add"
  /\ newTodoText[1] = <<" ", "\t">>
  /\ IsTodoList(todos[1])
  /\ Len(todos[1].a) >= 1

(***************************************************************************)
(* C3: on a collection of Todo records that has the id, toggleTodo(id)     *)
(* turns completed into its negation in the elements that carry the id,    *)
(* keeps their id and text, and leaves the elements with another id, the   *)
(* size and the order as they are.                                         *)
(***************************************************************************)
C3_ToggleFlipsById ==
  [][\A t \in Tabs :
       (Called("toggle", t) /\ IsTodoList(todos[t])
          /\ last'.id \in IdsIn(todos[t]))
       => /\ IsTodoList(todos'[t])
          /\ Len(todos'[t].a) = Len(todos[t].a)
          /\ \A j \in 1..Len(todos[t].a) :
               LET old == todos[t].a[j]
                   new == todos'[t].a[j]
               IN  IF IdOf(old) = last'.id
                     THEN /\ IdOf(new) = IdOf(old)
                          /\ TextOf(new) = TextOf(old)
                          /\ CompletedOf(new) = ~CompletedOf(old)
                     ELSE new = old]_vars

\* A toggle has just set the second of two Todos back to not completed; the
\* first, with another id, is completed.
C3_Witness ==
  /\ last.op = "toggle"
  /\ IsTodoList(todos[1])
  /\ Len(todos[1].a) = 2
  /\ IdOf(todos[1].a[1]) # last.id
  /\ IdOf(todos[1].a[2]) = last.id
  /\ CompletedOf(todos[1].a[1])
  /\ ~CompletedOf(todos[1].a[2])

(***************************************************************************)
(* C4: on a collection of Todo records that has the id, deleteTodo(id)     *)
(* removes exactly one element, one that carries the id, and the others    *)
(* stay, unchanged and in their order.                                     *)
(***************************************************************************)
C4_DeleteRemovesOne ==
  [][\A t \in Tabs :
       (Called("delete", t) /\ IsTodoList(todos[t])
          /\ last'.id \in IdsIn(todos[t]))
       => /\ todos'[t].t = "arr"
          /\ Len(todos'[t].a) = Len(todos[t].a) - 1
          /\ \E k \in 1..Len(todos[t].a) :
               /\ IdOf(todos[t].a[k]) = last'.id
               /\ todos'[t].a = RemoveAt(todos[t].a, k)]_vars

(***************************************************************************)
(* C5: on a collection of Todo records that does not have the id,          *)
(* toggleTodo(id) and deleteTodo(id) leave the collection as it is and     *)
(* raise no error.                                                         *)
(***************************************************************************)
C5_AbsentIdIsNoOp ==
  [][\A t \in Tabs :
       ((Called("toggle", t) \/ Called("delete", t))
          /\ IsTodoList(todos[t]) /\ last'.id \notin IdsIn(todos[t]))
       => /\ todos'[t] = todos[t]
          /\ last'.err = "none"]_vars

(***************************************************************************)
(* C6: the ids of the Todos of a collection are pairwise distinct, and     *)
(* every id addTodo gives out is larger than all the ids given out before, *)
(* also when two addTodo calls read the same Date.now().                   *)
(***************************************************************************)
DistinctIds(v) ==
  \A j, k \in 1..Len(v.a) : j # k => IdOf(v.a[j]) # IdOf(v.a[k])

C6_IdsUniqueAndIncreasing ==
  [][\A t \in Tabs :
       /\ IsTodoList(todos'[t]) => DistinctIds(todos'[t])
       /\ (Called("add", t) /\ todos'[t] # todos[t])
          => IdOf(todos'[t].a[Len(todos'[t].a)]) > maxIssuedId]_vars

(***************************************************************************)
(* C7: when an addTodo that created a Todo, a toggleTodo or a deleteTodo   *)
(* returns, the item under STORAGE_KEY is the serialization of the whole   *)
(* collection the tab now has, and parsing the item gives that collection. *)
(***************************************************************************)
C7_WriteThrough ==
  [][\A t \in Tabs :
       (/\ \/ Called("add", t) /\ Trim(newTodoText[t]) # <<>>
           \/ Called("toggle", t)
           \/ Called("delete", t)
        /\ last'.err = "none")
       => /\ storage' = Item(JSONstringify(todos'[t]))
          /\ JSONparse(storage'.s) = [ok |-> TRUE, v |-> todos'[t]]]_vars

\* A delete has just returned and left one completed Todo, and the stored
\* item is not the empty array.
C7_Witness ==
  /\ last.op = "delete"
  /\ last.err = "none"
  /\ IsTodoList(todos[1])
  /\ Len(todos[1].a) = 1
  /\ CompletedOf(todos[1].a[1])
  /\ storage.has
  /\ Len(storage.s) > 2

(***************************************************************************)
(* C8: when a tab whose session has ended is loaded again and no setItem   *)
(* of the ended session threw, the new session's collection after          *)
(* loadTodos equals the collection the ended session had at its end.       *)
(***************************************************************************)
C8_NextSessionRestores ==
  [][\A t \in Tabs :
       (Called("mount", t) /\ phase[t] = "closed" /\ writesOk[t]
          /\ last'.err = "none")
       => todos'[t] = todos[t]]_vars

\* A session has just started with two Todos, which only an earlier session
\* can have added: the first completed, the second with a quote in its text.
C8_Witness ==
  /\ last.op = "mount"
  /\ IsTodoList(todos[1])
  /\ Len(todos[1].a) = 2
  /\ CompletedOf(todos[1].a[1])
  /\ TextOf(todos[1].a[2]) = <<"\"", "b">>
  /\ writeFailures = 0

(***************************************************************************)
(* C9: for the collection C that loadTodos has just produced, the item     *)
(* saveTodos stores for C is loaded back by loadTodos as C.                *)
(***************************************************************************)
C9_SaveLoadRoundTrip ==
  \A t \in Tabs :
    (last.op = "mount" /\ last.tab = t)
    => loadTodos(EmptyTodos, StoredBy(todos[t])).todos = todos[t]

\* loadTodos has just produced two Todos with ids of one and of two digits.
C9_Witness ==
  /\ last.op = "mount"
  /\ IsTodoList(todos[1])
  /\ Len(todos[1].a) = 2
  /\ IdOf(todos[1].a[1]) = 9
  /\ IdOf(todos[1].a[2]) = 10
  /\ ~CompletedOf(todos[1].a[1])
  /\ TextOf(todos[1].a[1]) = <<"\"", "b">>

(***************************************************************************)
(* C10: when the stored item is a non-empty string that is not JSON,       *)
(* loadTodos raises nothing, calls console.error and leaves the empty      *)
(* collection.                                                             *)
(***************************************************************************)
C10_MalformedLoadsEmpty ==
  \A t \in Tabs :
    (/\ last.op = "mount" /\ last.tab = t
     /\ storage.has /\ storage.s # <<>>
     /\ ~JSONparse(storage.s).ok)
    => /\ last.err = "none"
       /\ last.logged
       /\ todos[t] = EmptyTodos

\* loadTodos has just run on the stored string "not json".
C10_Witness ==
  /\ last.op = "mount"
  /\ last.logged
  /\ storage = Item(<<"n", "o", "t", " ", "j", "s", "o", "n">>)

(***************************************************************************)
(* C11: no mount, addTodo, toggleTodo or deleteTodo ends with an exception *)
(* thrown by a localStorage access.                                        *)
(***************************************************************************)
StorageErrors == {"QuotaExceededError", "SecurityError"}

C11_StorageFailureIsCaught ==
  (last.op \in {"mount", "add", "toggle", "delete"})
  => last.err \notin StorageErrors

(***************************************************************************)
(* C12, as claimed: after a submit by the button or by Enter the input     *)
(* field is empty, whether addTodo appended a Todo or not.                 *)
(***************************************************************************)
C12_SubmitAlwaysClears ==
  [][\A t \in Tabs : Called("add", t) => newTodoText'[t] = <<>>]_vars

(***************************************************************************)
(* C12, amended: a submit by the button or by Enter runs addTodo on the    *)
(* current input; when addTodo appends the Todo (the trimmed input is not  *)
(* empty and the spread of `todos` does not throw) the new Todo has the    *)
(* trimmed input as text and the input field is emptied, and otherwise the *)
(* input field and the collection keep their values.                       *)
(***************************************************************************)
C12_SubmitClearsOnAppend ==
  [][\A t \in Tabs :
       Called("add", t)
       => /\ last'.via \in {"click", "Enter"}
          /\ IF Trim(newTodoText[t]) # <<>> /\ Iterable(todos[t])
               THEN /\ newTodoText'[t] = <<>>
                    /\ GetProp(todos'[t].a[Len(todos'[t].a)], KeyText)
                         = JStr(Trim(newTodoText[t]))
               ELSE /\ newTodoText'[t] = newTodoText[t]
                    /\ todos'[t] = todos[t]]_vars

\* Enter has just been pressed on a white-space input, which is still there.
C12_Witness ==
  /\ last.op = "add"
  /\ last.via = "Enter"
  /\ last.err = "none"
  /\ newTodoText[1] = <<" ", "\t">>

(***************************************************************************)
(* C13: the lifecycle of one Todo, step by step.                           *)
(***************************************************************************)
\* The Todo record with these three values.
TodoRec(id, text, completed) ==
  JObj(<< <<KeyId, JNum(id)>>,
          <<KeyText, JStr(text)>>,
          <<KeyCompleted, JBool(completed)>> >>)

\* The collection is one Todo record, with this id.
IsSole(v, id) == IsTodoList(v) /\ Len(v.a) = 1 /\ IdOf(v.a[1]) = id

\* addTodo of an accepted input on the empty collection gives exactly one
\* Todo with the trimmed input and completed = false.
LifecycleAdd(t) ==
  (Called("add", t) /\ todos[t] = EmptyTodos /\ Trim(newTodoText[t]) # <<>>)
  => todos'[t] = JArr(<<TodoRec(clock, Trim(newTodoText[t]), FALSE)>>)

\* toggleTodo of the id of that Todo gives the same single Todo, completed.
LifecycleToggle(t) ==
  (Called("toggle", t) /\ IsSole(todos[t], last'.id)
     /\ ~CompletedOf(todos[t].a[1]))
  => todos'[t] = JArr(<<TodoRec(IdOf(todos[t].a[1]), TextOf(todos[t].a[1]),
                                TRUE)>>)

EmptyArrayText == <<"[", "]">>

(***************************************************************************)
(* C13, as claimed: add, toggle and delete of one Todo from the empty      *)
(* collection give one open Todo, the same Todo completed, and the empty   *)
(* collection with the stored item "[]".                                   *)
(***************************************************************************)
C13_LifecycleEndsStoredEmpty ==
  [][\A t \in Tabs :
       /\ LifecycleAdd(t)
       /\ LifecycleToggle(t)
       /\ (Called("delete", t) /\ IsSole(todos[t], last'.id))
          => /\ todos'[t] = EmptyTodos
             /\ storage' = Item(EmptyArrayText)]_vars

(***************************************************************************)
(* C13, amended: the same, the stored item being "[]" when the setItem of  *)
(* the delete did not throw.                                               *)
(***************************************************************************)
C13_Lifecycle ==
  [][\A t \in Tabs :
       /\ LifecycleAdd(t)
       /\ LifecycleToggle(t)
       /\ (Called("delete", t) /\ IsSole(todos[t], last'.id))
          => /\ todos'[t] = EmptyTodos
             /\ last'.err = "none" => storage' = Item(EmptyArrayText)]_vars

\* A delete has just returned and emptied a collection that an add had
\* filled, and the stored item is "[]".
C13_Witness ==
  /\ last.op = "delete"
  /\ last.err = "none"
  /\ maxIssuedId >= MinClock
  /\ todos[1] = EmptyTodos
  /\ storage = Item(EmptyArrayText)

(***************************************************************************)
(* C14: the collection is in insertion order.  addTodo puts the new Todo   *)
(* after all the others, which keep their positions; toggleTodo keeps      *)
(* every Todo at its position; deleteTodo leaves the survivors in their    *)
(* order; and so the ids, which are creation times, never decrease along   *)
(* the collection.                                                         *)
(***************************************************************************)
\* a is b without some of its elements, the others in the order of b.
RECURSIVE IsSubSeq(_, _)
IsSubSeq(a, b) ==
  IF a = <<>> THEN TRUE
  ELSE IF b = <<>> THEN FALSE
  ELSE IF Head(a) = Head(b) THEN IsSubSeq(Tail(a), Tail(b))
  ELSE IsSubSeq(a, Tail(b))

\* The same Todos at the same positions, whatever their completed flags.
SamePlaces(a, b) ==
  /\ Len(a) = Len(b)
  /\ \A j \in 1..Len(a) :
       /\ GetProp(a[j], KeyId) = GetProp(b[j], KeyId)
       /\ GetProp(a[j], KeyText) = GetProp(b[j], KeyText)

OldestFirst(v) ==
  \A j, k \in 1..Len(v.a) : j < k => IdOf(v.a[j]) <= IdOf(v.a[k])

C15_AbsentLoadsEmpty ==
  \A t \in Tabs :
    (/\ last.op = "mount" /\ last.tab = t
     /\ ~storage.has \/ storage.s = <<>>)
    => /\ todos[t] = EmptyTodos
       /\ last.err = "none"

\* A mount has just run with no item under the key.
C15_Witness ==
  /\ last.op = "mount"
  /\ last.tab = 1
  /\ storage = NoItem
  /\ phase[1] = "open"

(***************************************************************************)
(* C16: a session calls getItem once, in the loadTodos of its mount, which *)
(* comes before all its handlers; addTodo, toggleTodo, deleteTodo and      *)
(* handleKeydown run with that one read behind them and add none.          *)
(***************************************************************************)
Handlers == {"add", "toggle", "delete", "keydown"}

C16_ReadOnceOnMount ==
  [][\A t \in Tabs :
       /\ Called("mount", t) => reads'[t] = 1
       /\ (last'.op \in Handlers /\ last'.tab = t)
          => /\ phase[t] = "open"
             /\ reads[t] = 1
             /\ reads'[t] = 1]_vars

\* A toggle has just changed a collection of two Todos while the stored item
\* stayed behind, and the session still has its single read.
C16_Witness ==
  /\ last.op = "toggle"
  /\ last.err = "QuotaExceededError"
  /\ reads[1] = 1
  /\ IsTodoList(todos[1])
  /\ Len(todos[1].a) = 2
  /\ storage # StoredBy(todos[1])

(***************************************************************************)
(* C18: every Todo record of a collection has a text that is not empty and *)
(* is its own trimmed form (all of them were made by addTodo), and         *)
(* toggleTodo leaves the text of every element as it is.                   *)
(***************************************************************************)
TextIsTrimmed(todo) ==
  TextOf(todo) # <<>> /\ Trim(TextOf(todo)) = TextOf(todo)

C18_TextTrimmedNonEmpty ==
  [][\A t \in Tabs :
       todos'[t].t = "arr"
       => /\ \A j \in 1..Len(todos'[t].a) :
               IsTodo(todos'[t].a[j]) => TextIsTrimmed(todos'[t].a[j])
          /\ (Called("toggle", t) /\ todos[t].t = "arr")
             => /\ Len(todos'[t].a) = Len(todos[t].a)
                /\ \A j \in 1..Len(todos[t].a) :
                     GetProp(todos'[t].a[j], KeyText)
                       = GetProp(todos[t].a[j], KeyText)]_vars

\* A toggle has just completed the Todo that was typed as ' "b '.
C18_Witness ==
  /\ last.op = "toggle"
  /\ IsTodoList(todos[1])
  /\ Len(todos[1].a) = 1
  /\ TextOf(todos[1].a[1]) = <<"\"", "b">>
  /\ CompletedOf(todos[1].a[1])

(***************************************************************************)
(* C20: a handler whose setItem throws.                                    *)
(***************************************************************************)
\* The step is an addTodo, toggleTodo or deleteTodo of tab t whose call of
\* setItem threw.
WriteThrew(t) ==
  /\ last'.op \in {"add", "toggle", "delete"}
  /\ last'.tab = t
  /\ writeFailures' = writeFailures + 1

\* `todos` holds the value the handler computed, the input field of an
\* addTodo is empty, the exception has left the handler and nothing was
\* stored.
NotRolledBack(t) ==
  /\ Called("add", t)
     => /\ todos'[t].a = Append(SpreadItems(todos[t]),
                                TodoRec(clock, Trim(newTodoText[t]), FALSE))
        /\ newTodoText'[t] = <<>>
  /\ Called("toggle", t)
     => todos'[t].a = [j \in 1..Len(todos[t].a) |->
                         Toggled(todos[t].a[j], last'.id)]
  /\ Called("delete", t)
     => todos'[t].a = SelectSeq(todos[t].a, LAMBDA x : Kept(x, last'.id))
  /\ last'.err = "QuotaExceededError"
  /\ storage' = storage

(***************************************************************************)
(* C20, as claimed: when the setItem of a handler throws, the collection   *)
(* has been replaced and is not rolled back, the exception reaches the     *)
(* caller, and the stored item is not the serialization of the collection. *)
(***************************************************************************)
C20_FailedWriteLeavesMismatch ==
  [][\A t \in Tabs :
       WriteThrew(t)
       => /\ NotRolledBack(t)
          /\ storage' # StoredBy(todos'[t])]_vars

(***************************************************************************)
(* C20, amended: when the setItem of a handler throws, the collection has  *)
(* been replaced and is not rolled back, the exception reaches the caller, *)
(* and the stored item is what it was before the call.                     *)
(***************************************************************************)
C20_FailedWriteNotRolledBack ==
  [][\A t \in Tabs : WriteThrew(t) => NotRolledBack(t)]_vars

\* An add has just thrown from setItem: the second Todo is in the
\* collection, the input field is empty and the stored item lacks the Todo.
C20_Witness ==
  /\ last.op = "add"
  /\ last.err = "QuotaExceededError"
  /\ newTodoText[1] = <<>>
  /\ IsTodoList(todos[1])
  /\ Len(todos[1].a) = 2
  /\ storage = StoredBy(JArr(<<todos[1].a[1]>>))

(***************************************************************************)
(* C19: the each block and the write of the handler it follows.            *)
(***************************************************************************)
\* The step brings the each block of tab t up to date after an addTodo,
\* toggleTodo or deleteTodo that assigned `todos`.
RendersMutation(t) ==
  /\ Called("render", t)
  /\ last.op \in {"add", "toggle", "delete"}

(***************************************************************************)
(* C19, as claimed: the each block shows the collection an add, toggle or  *)
(* delete assigned only after the setItem of that handler has completed:   *)
(* the handler has returned and the stored item is the serialization of    *)
(* the collection shown.                                                   *)
(***************************************************************************)
C19_RenderAfterWriteCompleted ==
  [][\A t \in Tabs :
       RendersMutation(t)
       => /\ last.err = "none"
          /\ storage = StoredBy(todos[t])]_vars

(***************************************************************************)
(* C19, amended: the each block shows the collection an add, toggle or     *)
(* delete assigned only after that handler has ended.  Either it returned, *)
(* and then the stored item is the serialization of the collection shown,  *)
(* or its setItem threw, and then the write never completes and the block  *)
(* shows a collection that was not stored by this handler.  The render     *)
(* changes neither the collection nor the stored item.                     *)
(***************************************************************************)
C19_RenderAfterHandlerEnded ==
  [][\A t \in Tabs :
       RendersMutation(t)
       => /\ last.tab = t
          /\ last.err \in {"none", "QuotaExceededError"}
          /\ last.err = "none" => storage = StoredBy(todos[t])
          /\ last.err = "QuotaExceededError" => ~writesOk[t]
          /\ todos' = todos
          /\ storage' = storage]_vars

\* The each block has just been brought up to date with two Todos, the
\* second of which the stored item does not hold: its add threw from
\* setItem.
C19_Witness ==
  /\ last.op = "render"
  /\ last.err = "none"
  /\ IsTodoList(todos[1])
  /\ Len(todos[1].a) = 2
  /\ ~writesOk[1]
  /\ storage = StoredBy(JArr(<<todos[1].a[1]>>))

(***************************************************************************)
(* C17: two tabs on the same key.                                          *)
(***************************************************************************)
\* The elements of the array the stored item holds.
PersistedTodos(st) ==
  LET parsed == JSONparse(st.s)
  IN  IF st.has /\ parsed.ok /\ parsed.v.t = "arr"
        THEN {parsed.v.a[j] : j \in 1..Len(parsed.v.a)}
        ELSE {}

\* The elements of the collection of a tab.
HeldTodos(v) == IF v.t = "arr" THEN {v.a[j] : j \in 1..Len(v.a)} ELSE {}

\* Tab b runs addTodo, toggleTodo or deleteTodo while the other tab is open.
ActsBeside(b) ==
  /\ last'.op \in {"add", "toggle", "delete"}
  /\ last'.tab = b
  /\ \A t \in Tabs : phase[t] = "open"

(***************************************************************************)
(* C17, as claimed: once a tab runs an add, toggle or delete beside        *)
(* another, the stored item is the serialization of its own collection,    *)
(* and no Todo the stored item held that is not in its collection remains  *)
(* stored.                                                                 *)
(***************************************************************************)
C17_AnyOperationOverwrites ==
  [][\A b \in Tabs :
       ActsBeside(b)
       => /\ storage' = StoredBy(todos'[b])
          /\ \A x \in PersistedTodos(storage) \ HeldTodos(todos'[b]) :
               x \notin PersistedTodos(storage')]_vars

(***************************************************************************)
(* C17, amended: once a tab runs beside another an add that creates a      *)
(* Todo, a toggle or a delete, and the handler returns, the stored item is *)
(* the serialization of its own collection and holds the Todos of that     *)
(* collection and no others.  An add of blank input and a handler that     *)
(* throws leave the stored item as it was.                                 *)
(***************************************************************************)
C17_LastWriteWins ==
  [][\A b \in Tabs :
       ActsBeside(b)
       => IF Assigned(last') /\ last'.err = "none"
            THEN /\ storage' = StoredBy(todos'[b])
                 /\ PersistedTodos(storage') = HeldTodos(todos'[b])
            ELSE storage' = storage]_vars

\* Tab 2 found nothing stored when it loaded, so it loaded before any write.
\* Tab 1 holds a Todo it created and stored (no setItem has thrown).  Tab 2
\* has just run deleteTodo on its empty collection, and the stored item is
\* that empty collection: the Todo of tab 1 is no longer stored.
C17_Witness ==
  /\ last.op = "delete" /\ last.tab = 2 /\ last.err = "none"
  /\ phase[1] = "open" /\ phase[2] = "open"
  /\ ~found[2]
  /\ writeFailures = 0
  /\ IsTodoList(todos[1]) /\ Len(todos[1].a) = 1
  /\ todos[2] = EmptyTodos
  /\ storage = StoredBy(todos[2])
  /\ todos[1].a[1] \notin PersistedTodos(storage)

(***************************************************************************)
(* C21: whenever the stored item parses as JSON, loadTodos assigns the     *)
(* parsed value to `todos` as it is, without logging; when that value is   *)
(* not an array of Todo records (a number, null, an object, an array with  *)
(* a null element), neither is the collection after the load.              *)
(***************************************************************************)
C21_ParsedIsAssignedUnvalidated ==
  [][\A t \in Tabs :
       (Called("mount", t) /\ storage.has /\ JSONparse(storage.s).ok)
       => /\ todos'[t] = JSONparse(storage.s).v
          /\ last'.err = "none"
          /\ ~last'.logged
          /\ ~IsTodoList(JSONparse(storage.s).v) => ~IsTodoList(todos'[t])]_vars

\* A load has just assigned the parsed array [null]: the collection has an
\* element that is not a Todo record.
C21_Witness ==
  /\ last.op = "mount"
  /\ ~last.logged
  /\ phase[1] = "open"
  /\ storage = Item(<<"[", "n", "u", "l", "l", "]">>)
  /\ todos[1] = JArr(<<JNull>>)
  /\ ~IsTodoList(todos[1])

(***************************************************************************)
(* C22: the presentation layer.  toggleTodo and deleteTodo are called only *)
(* by the controls of the rendered rows.                                   *)
(***************************************************************************)
\* onToggle={() => toggleTodo(todo.id)}, onDelete={() => deleteTodo(todo.id)}
BoundId(rs, j) == GetProp(rs[j], KeyId).n

\* The checkbox of row j changes: onchange={onToggle}.
ClickToggle(t, j) ==
  /\ j \in 1..Len(rows[t])
  /\ GetProp(rows[t][j], KeyId).t = "num"
  /\ toggleTodo(t, BoundId(rows[t], j))

\* The delete button of row j is clicked: onclick={onDelete}.
ClickDelete(t, j) ==
  /\ j \in 1..Len(rows[t])
  /\ GetProp(rows[t][j], KeyId).t = "num"
  /\ deleteTodo(t, BoundId(rows[t], j))

\* The page as its user drives it: nothing is stored when it opens, what is
\* typed is 'a', the add button is used on collections of fewer than MaxRows
\* items, and toggleTodo and deleteTodo are called by the rows only.
MaxRows == 3

RowDomain == 1..MaxRows

InitUI == Init /\ storage = NoItem

NextUI ==
  \/ ~Pending /\ \E t \in OneTab : Mount(t)
  \/ ~Pending /\ Tick
  \/ ~Pending /\ \E t \in OneTab, txt \in TabInputs : TypeText(t, txt)
  \/ ~Pending /\ \E t \in OneTab : addTodoWithin(t, "click", MaxRows)
  \/ ~Pending /\ \E t \in OneTab, j \in RowDomain : ClickToggle(t, j)
  \/ ~Pending /\ \E t \in OneTab, j \in RowDomain : ClickDelete(t, j)
  \/ \E t \in OneTab : Render(t)
  \/ \E t \in OneTab : RenderDuplicateKeys(t)

SpecUI == InitUI /\ [][NextUI]_vars

(***************************************************************************)
(* C22, as claimed: when toggleTodo or deleteTodo is called by a control   *)
(* of a row, the update of the each block that followed the last           *)
(* assignment to `todos` has run, every row shows a Todo whose id is in    *)
(* the collection as it is at the call, and the id passed is the id of a   *)
(* Todo of the collection.  It fails once two Todos have the same id (C6)  *)
(* and the each block rejects the duplicate key.                           *)
(***************************************************************************)
C22_ClickedIdIsPresent ==
  [][\A t \in Tabs :
       (Called("toggle", t) \/ Called("delete", t))
       => /\ IsTodoList(todos[t])
          /\ last.op = "render" \/ ~Assigned(last)
          /\ \A j \in 1..Len(rows[t]) : IdOf(rows[t][j]) \in IdsIn(todos[t])
          /\ last'.id \in IdsIn(todos[t])
          /\ last'.err # "TypeError"]_vars

(***************************************************************************)
(* C23: what leaves the stored item alone.                                 *)
(***************************************************************************)
\* The stored item is a string JSON.parse throws on.
Malformed(st) == st.has /\ st.s # <<>> /\ ~JSONparse(st.s).ok

\* The malformed items a behaviour can start with.
MalformedItems == {st \in InitStored : Malformed(st)}

(***************************************************************************)
(* C23: a load leaves the stored item as it is, also when it is malformed  *)
(* and the collection becomes empty; the malformed item then differs from  *)
(* the serialization of the collection after every step of the session,    *)
(* until an add, toggle or delete puts the serialization of the collection *)
(* in its place.  An add of blank input and a key other than Enter leave   *)
(* the stored item as it is.                                               *)
(***************************************************************************)
C23_LoadWritesNothing ==
  [][LET malformed == storage \in MalformedItems
     IN  \A t \in Tabs :
           /\ Called("mount", t)
              => /\ storage' = storage
                 /\ malformed
                    => todos'[t] = EmptyTodos /\ storage' # StoredBy(todos'[t])
           /\ (Called("add", t) /\ Trim(newTodoText[t]) = <<>>)
              => storage' = storage
           /\ Called("keydown", t)
              => last'.via # "Enter" /\ storage' = storage
           /\ (last'.tab = t /\ storage' # storage /\ malformed)
              => /\ last'.op \in {"add", "toggle", "delete"}
                 /\ last'.err = "none"
                 /\ storage' = StoredBy(todos'[t])
           /\ (last'.tab = t /\ storage' = storage /\ malformed)
              => storage' # StoredBy(todos'[t])]_vars

\* A session loaded the malformed item [{ and an add of blank input has
\* just been rejected: the item is still there and the collection is empty.
C23_Witness ==
  /\ last.op = "add"
  /\ last.id = 0
  /\ last.err = "none"
  /\ newTodoText[1] = <<" ", "\t">>
  /\ found[1]
  /\ todos[1] = EmptyTodos
  /\ storage = Item(<<"[", "{">>)

====
